---- MODULE Spec2Model ----
(***************************************************************************)
(* A model of the two teaching notebooks of vampyr-coven:                  *)
(*   - PCMSolvent.ipynb: the Cavity and Permittivity classes and the SCRF  *)
(*     loop for the reaction potential;                                    *)
(*   - H-atom-4c.ipynb: the orbital optimisation loop of the Dirac         *)
(*     equation;                                                           *)
(* and of the workflow that builds their container image.                  *)
(* Lengths are integers in units of 0.2 bohr (the notebook's               *)
(* boundary_width) and are exact.  Cavity values are binary floating       *)
(* point numbers with a mantissa of Mantissa bits, rounded to nearest,     *)
(* ties to even, as Python's floats are with 53 bits.  Permittivities are  *)
(* the positive reals 2^q with q rational, without rounding.  The          *)
(* multiwavelet library (vampyr, orbital4c) is outside the repository:     *)
(* its results are drawn from small sets of stand-ins.                     *)
(***************************************************************************)
EXTENDS Integers, Sequences, FiniteSets

VARIABLES
    centers,      \* Cavity.centers: sequence of sphere centres (3-tuples)
    radii,        \* Cavity.radii: sequence of sphere radii
    sigma,        \* Cavity.sigma: width of the cavity boundary
    inside,       \* Permittivity.inside
    outside,      \* Permittivity.outside
    call,         \* the last completed call of Cavity, of Permittivity or of
                  \* constructChargeDensity
    notebook,     \* the notebook the kernel runs
    pc,           \* the position of the kernel in that notebook
    out,          \* the lines printed by the running cell
    V_R,          \* PCM: the reaction potential
    V_R_np1,      \* PCM: the Poisson solution of the last iteration
    i,            \* PCM: the loop variable of the SCRF loop, -1 before the loop
    update,       \* PCM: norm of the last change of V_R
    E_r,          \* PCM: the reaction energy
    E_r_old,      \* PCM: the reaction energy of the iteration before
    dE_r,         \* PCM: the last change of the energy
    final,        \* PCM: the value of the last cell, (1/2)*vp.dot(V_R, dens)
    hits,         \* PCM: history, the iterations whose update was below epsilon
    spinor_H,     \* Dirac: the current iterate
    orbital_error,\* Dirac: squared norm of the last change of the iterate
    energy,       \* Dirac: the last energy expectation value
    body,         \* Dirac: the other names the loop body binds
    event,        \* CI: the last event delivered to the repository
    runs,         \* CI: the runs of the workflow, in the order they started
    registry      \* CI: the runs whose image was pushed to ghcr.io, in order

cavVars == <<centers, radii, sigma, inside, outside, call>>

pcmVars == <<V_R, V_R_np1, i, update, E_r, E_r_old, dE_r, final, hits>>

diracVars == <<spinor_H, orbital_error, energy, body>>

ciVars == <<event, runs, registry>>

vars == <<centers, radii, sigma, inside, outside, call, notebook, pc, out,
          V_R, V_R_np1, i, update, E_r, E_r_old, dE_r, final, hits,
          spinor_H, orbital_error, energy, body, event, runs, registry>>

----------------------------------------------------------------------------
(* Bounds of the model. *)

\* Longest list of spheres a Cavity is constructed with.
MaxSpheres == 2

\* Evaluation points on the x axis are 0, 3, ..., 3 * MaxStep.
MaxStep == 8

\* The Poisson operator returns one of the potentials 0..MaxPot.
MaxPot == 3

\* The orbital4c operators return one of the orbitals 0..MaxOrb.
MaxOrb == 3

\* The lines of output the model keeps of the Dirac loop: the last MaxLines.
MaxLines == 7

\* Longest lists of positions and of charges constructChargeDensity is called
\* with.
MaxCharges == 2

\* The number of workflow runs the model follows.
MaxRuns == 3

\* Longest list of spheres of the cavities whose spheres are listed in every
\* order.
MaxUnion == 3

\* The bits of the mantissa of a float of the model.
Mantissa == 4

----------------------------------------------------------------------------
(* Exact rational arithmetic: a rational is [n |-> numerator, d |-> denominator] *)
(* in lowest terms with d > 0. *)

Abs(x) == IF x < 0 THEN -x ELSE x

RECURSIVE GCD(_, _)
GCD(a, b) == IF b = 0 THEN a ELSE GCD(b, a % b)

Rat(n, d) ==
    LET g == GCD(Abs(n), Abs(d))
        s == IF d < 0 THEN -1 ELSE 1
    IN  [n |-> (s * n) \div g, d |-> (s * d) \div g]

Zero == Rat(0, 1)
One == Rat(1, 1)
Half == Rat(1, 2)

RAdd(x, y) == Rat(x.n * y.d + y.n * x.d, x.d * y.d)
RSub(x, y) == Rat(x.n * y.d - y.n * x.d, x.d * y.d)
RMul(x, y) == Rat(x.n * y.n, x.d * y.d)
RLeq(x, y) == x.n * y.d <= y.n * x.d
RLess(x, y) == x.n * y.d < y.n * x.d

RECURSIVE TwoTo(_)
TwoTo(k) == IF k = 0 THEN 1 ELSE 2 * TwoTo(k - 1)

\* A mantissa is an integer of [FlLow, FlHigh).
FlHigh == TwoTo(Mantissa)
FlLow == TwoTo(Mantissa - 1)

\* n/d > 0 times sn/sd rounded to Mantissa significant bits, to nearest with
\* ties to even: n/d is scaled by powers of 2 into [FlLow, FlHigh) and rounded
\* to an integer there.
RECURSIVE FlScaled(_, _, _, _)
FlScaled(n, d, sn, sd) ==
    IF n >= FlHigh * d THEN FlScaled(n, 2 * d, 2 * sn, sd)
    ELSE IF n < FlLow * d THEN FlScaled(2 * n, d, sn, 2 * sd)
    ELSE LET q == n \div d
             rem == n % d
             up == 2 * rem > d \/ (2 * rem = d /\ q % 2 = 1)
         IN  Rat((IF up THEN q + 1 ELSE q) * sn, sd)

\* The float nearest to the rational x: the result of a float operation
\* whose exact value is x.
Fl(x) ==
    IF x.n = 0 THEN x
    ELSE LET a == FlScaled(Abs(x.n), x.d, 1, 1)
         IN  IF x.n < 0 THEN Rat(-a.n, a.d) ELSE a

----------------------------------------------------------------------------
(* numpy and scipy functions used by Cavity and Permittivity. *)

\* np.array(a) - np.array(b) on 3-vectors.
VecSub(a, b) == <<a[1] - b[1], a[2] - b[2], a[3] - b[3]>>

Norm2(v) == v[1] * v[1] + v[2] * v[2] + v[3] * v[3]

\* The integer square root of a perfect square, -1 for any other number.
RECURSIVE SqrtFrom(_, _)
SqrtFrom(n, k) ==
    IF k * k = n THEN k ELSE IF k * k > n THEN -1 ELSE SqrtFrom(n, k + 1)

\* np.linalg.norm(v): evaluation points are chosen so that the norm is an
\* integer; it is -1 for any other point.  The norm of a vector along the x
\* axis is the absolute value of its component.
np_linalg_norm(v) ==
    IF v[2] = 0 /\ v[3] = 0 THEN Abs(v[1]) ELSE SqrtFrom(Norm2(v), 0)

\* scipy.special.erf in double precision returns exactly 1.0 for arguments of
\* 6 and more, and exactly -1.0 for arguments of -6 and less.
ErfSat == 6

\* scipy.special.erf(t) for a rational t: odd, non-decreasing, 0 at 0, strictly
\* between -1 and 1 for |t| < ErfSat and exactly -1 or 1 beyond.  The values in
\* between are quantised to quarters.
erf(t) ==
    LET a == Abs(t.n)
        m == IF a = 0 THEN 0
             ELSE IF 2 * a < t.d THEN 1
             ELSE IF a < t.d THEN 2
             ELSE IF a < ErfSat * t.d THEN 3
             ELSE 4
    IN  IF t.n < 0 THEN Rat(-m, 4) ELSE Rat(m, 4)

\* A positive real 2^q is [pow2 |-> q]; a real q*ln(2) is [ln2 |-> q].
Pow2(q) == [pow2 |-> q]

PosDiv(x, y) == Pow2(RSub(x.pow2, y.pow2))
PosMul(x, y) == Pow2(RAdd(x.pow2, y.pow2))
PosLeq(x, y) == RLeq(x.pow2, y.pow2)

np_log(x) == [ln2 |-> x.pow2]
np_exp(y) == Pow2(y.ln2)
Scale(y, q) == [ln2 |-> RMul(y.ln2, q)]

----------------------------------------------------------------------------
(* class Cavity *)

\* s_i, O_i and C_i of the loop body for sphere j at point r.
s_i(j, r) == np_linalg_norm(VecSub(centers[j], r)) - radii[j]

\* Mutant of O_i: the factor 1/2 is missing.
O_iNoHalf(j, r) == RAdd(One, erf(Rat(s_i(j, r), sigma)))

O_i(j, r) == Fl(RMul(Half, Fl(RAdd(One, erf(Rat(s_i(j, r), sigma))))))

C_i(j, r) == Fl(RSub(One, O_i(j, r)))

\* The values the local C of Cavity.__call__ takes up to the k-th pass of the
\* loop over the spheres: 1.0, then the product after each sphere.
RECURSIVE CavityLoop(_, _)

\* Mutant of CavityLoop: C = 1 - C_i in the place of C *= 1 - C_i.
CavityLoopAssigns(k, r) ==
    IF k = 0 THEN <<One>>
    ELSE Append(CavityLoop(k - 1, r), Fl(RSub(One, C_i(k, r))))

CavityLoop(k, r) ==
    IF k = 0 THEN <<One>>
    ELSE LET C == CavityLoop(k - 1, r)
         IN  Append(C, Fl(RMul(C[k], Fl(RSub(One, C_i(k, r))))))

\* Cavity.__call__(r): the values of the local C in the loop, and the C it
\* returns.
Cavity__call__(r) ==
    LET C == CavityLoop(Len(centers), r)
    IN  [partials |-> C, C |-> Fl(RSub(One, C[Len(C)]))]

\* Mutant of CavitySelf: the call subtracts the radii in place.
CavitySelfShrunk ==
    [centers |-> centers, radii |-> [j \in DOMAIN radii |-> radii[j] - 1],
     sigma |-> sigma]

\* The object's fields when Cavity.__call__ returns: it assigns none of them.
CavitySelf == [centers |-> centers, radii |-> radii, sigma |-> sigma]

----------------------------------------------------------------------------
(* class Permittivity *)

\* Mutant of permittivity: C_eval in the place of 1.0 - C_eval.
permittivitySwapped(C_eval) ==
    PosMul(inside, np_exp(Scale(np_log(PosDiv(outside, inside)), C_eval)))

\* Mutant of permittivity: the ratio inside/outside in the place of
\* outside/inside.
permittivityInverted(C_eval) ==
    PosMul(inside, np_exp(Scale(np_log(PosDiv(inside, outside)), RSub(One, C_eval))))

\* The local permittivity of Permittivity.__call__ for the value C_eval its
\* Cavity returned.
permittivity(C_eval) ==
    PosMul(inside, np_exp(Scale(np_log(PosDiv(outside, inside)), RSub(One, C_eval))))

\* The object's fields when Permittivity.__call__ returns: it assigns none of
\* them.
PermittivitySelf == [inside |-> inside, outside |-> outside]

----------------------------------------------------------------------------
(* Inputs. *)

\* Evaluation points: points of the x axis and one point off it.
Points == {<<3 * k, 0, 0>> : k \in 0..MaxStep} \cup {<<0, 5, 0>>}

\* A point whose distance to every centre is an integer.
Evaluable(r) == \A j \in 1..Len(centers) : np_linalg_norm(VecSub(centers[j], r)) >= 0

\* Spheres a Cavity is constructed with: radii > 0.
SphereCenters == {<<0, 0, 0>>, <<12, 0, 0>>}
SphereRadii == {5, 6}
Widths == {1, 4}

\* Permittivity constants: 1.0 and 2.0.
PermConstants == {Pow2(Rat(0, 1)), Pow2(Rat(1, 1))}

NoCall == [obj |-> "none"]

\* The value of a name the running notebook never binds.
None == "None"

\* A name the running cell binds later is <<>> until then, and <<v>> once it
\* is bound to v.
Unbound == <<>>
Bound(v) == <<v>>

\* The value the evaluation before this one returned, when it was an
\* evaluation of the same object at the same point r.
Before(obj, r) ==
    IF call.obj = obj /\ call.r = r THEN <<call.ret>> ELSE <<>>

\* The objects after construction (Cavity.__init__, Permittivity.__init__).
InitCavity ==
    /\ \E k \in 0..MaxSpheres :
          /\ centers \in [1..k -> SphereCenters]
          /\ radii \in [1..k -> SphereRadii]
    /\ sigma \in Widths
    /\ inside \in PermConstants
    /\ outside \in PermConstants
    /\ call = NoCall
    /\ notebook = "PCMSolvent"
    /\ pc = "classes"
    /\ out = <<>>
    /\ V_R = None /\ V_R_np1 = Unbound /\ i = -1 /\ update = None /\ E_r = Unbound
    /\ E_r_old = None /\ dE_r = Unbound /\ final = Unbound /\ hits = {}
    /\ spinor_H = None /\ orbital_error = None /\ energy = Unbound
    /\ body = Unbound
    /\ event = None /\ runs = <<>> /\ registry = <<>>

----------------------------------------------------------------------------
(* Operations. *)

\* C(r): one evaluation of the Cavity object.
CavityEval(r) ==
    /\ Evaluable(r)
    /\ \E res \in {Cavity__call__(r)} :
          call' = [obj |-> "Cavity", r |-> r, partials |-> res.partials,
                   C |-> res.C, ret |-> res.C, before |-> Before("Cavity", r)]
    /\ centers' = CavitySelf.centers
    /\ radii' = CavitySelf.radii
    /\ sigma' = CavitySelf.sigma
    /\ UNCHANGED <<inside, outside, notebook, pc, out, pcmVars, diracVars, ciVars>>

\* Permittivity(C, inside, outside)(r): one evaluation of the Permittivity
\* object, which evaluates its Cavity.
PermittivityEval(r) ==
    /\ Evaluable(r)
    /\ \E res \in {Cavity__call__(r)} :
          call' = [obj |-> "Permittivity", r |-> r, partials |-> res.partials,
                   C |-> res.C, ret |-> permittivity(res.C),
                   before |-> Before("Permittivity", r)]
    /\ centers' = CavitySelf.centers
    /\ radii' = CavitySelf.radii
    /\ sigma' = CavitySelf.sigma
    /\ inside' = PermittivitySelf.inside
    /\ outside' = PermittivitySelf.outside
    /\ UNCHANGED <<notebook, pc, out, pcmVars, diracVars, ciVars>>

NextCavity ==
    \/ \E r \in Points : CavityEval(r)
    \/ \E r \in Points : PermittivityEval(r)

SpecCavity == InitCavity /\ [][NextCavity]_vars

\* Cavities of up to MaxUnion interlocking spheres, with the notebook's
\* Permittivity(C, inside=1.0, outside=2.0).
InitUnion ==
    /\ \E k \in 0..MaxUnion :
          /\ centers \in [1..k -> SphereCenters]
          /\ radii \in [1..k -> SphereRadii]
    /\ sigma \in Widths
    /\ inside = Pow2(Rat(0, 1))
    /\ outside = Pow2(Rat(1, 1))
    /\ call = NoCall
    /\ notebook = "PCMSolvent"
    /\ pc = "classes"
    /\ out = <<>>
    /\ V_R = None /\ V_R_np1 = Unbound /\ i = -1 /\ update = None /\ E_r = Unbound
    /\ E_r_old = None /\ dE_r = Unbound /\ final = Unbound /\ hits = {}
    /\ spinor_H = None /\ orbital_error = None /\ energy = Unbound
    /\ body = Unbound
    /\ event = None /\ runs = <<>> /\ registry = <<>>

NextUnion == \E r \in Points : CavityEval(r)

SpecUnion == InitUnion /\ [][NextUnion]_vars

----------------------------------------------------------------------------
(* PCMSolvent.ipynb: constructChargeDensity (cell 77a9524b). *)

\* Arguments of the calls: positions, charges, and the width parameter, which
\* is Unbound in a call that does not pass it.
ChargePositions == {<<0, 0, 0>>, <<3, 0, 0>>}
ChargeValues == {1, -1}
ChargeWidths == {10, 1000}
ListsOf(S) == UNION {[1..k -> S] : k \in 0..MaxCharges}

Min(a, b) == IF a <= b THEN a ELSE b

\* vp.GaussFunc(beta, alpha, position, poly_exponent = [0,0,0]) with
\* alpha = (beta/pi)^(3/2) * charge, named by beta and the charge.
GaussFunc(beta, charge, position) ==
    [beta |-> beta, alpha |-> <<"(beta/pi)^(3/2)", beta, charge>>,
     position |-> position]

\* constructChargeDensity(positions, charges, width_parameter): the signature
\* gives width_parameter no default value, so a call without it raises
\* TypeError before the body runs; zip stops at the shorter list.
constructChargeDensity(positions, charges, width_parameter) ==
    IF width_parameter = Unbound
    THEN [raised |-> "TypeError", charge_density |-> <<>>]
    ELSE [raised |-> "",
          charge_density |->
              [k \in 1..Min(Len(positions), Len(charges)) |->
                  GaussFunc(width_parameter[1], charges[k], positions[k])]]

\* The kernel after cell 77a9524b has defined the function.
InitDensity ==
    /\ notebook = "PCMSolvent"
    /\ pc = "functions"
    /\ call = NoCall
    /\ out = <<>>
    /\ centers = None /\ radii = None /\ sigma = None
    /\ inside = None /\ outside = None
    /\ V_R = None /\ V_R_np1 = Unbound /\ i = -1 /\ update = None /\ E_r = Unbound
    /\ E_r_old = None /\ dE_r = Unbound /\ final = Unbound /\ hits = {}
    /\ spinor_H = None /\ orbital_error = None /\ energy = Unbound
    /\ body = Unbound
    /\ event = None /\ runs = <<>> /\ registry = <<>>

\* One call of constructChargeDensity.
ChargeDensityCall(positions, charges, width_parameter) ==
    /\ pc = "functions"
    /\ call' = [obj |-> "constructChargeDensity", positions |-> positions,
                charges |-> charges, width_parameter |-> width_parameter,
                ret |-> constructChargeDensity(positions, charges, width_parameter)]
    /\ UNCHANGED <<centers, radii, sigma, inside, outside, notebook, pc, out,
                   pcmVars, diracVars, ciVars>>

NextDensity ==
    \E positions \in ListsOf(ChargePositions), charges \in ListsOf(ChargeValues),
       width_parameter \in {Unbound} \cup {Bound(w) : w \in ChargeWidths} :
        ChargeDensityCall(positions, charges, width_parameter)

SpecDensity == InitDensity /\ [][NextDensity]_vars

----------------------------------------------------------------------------
(* PCMSolvent.ipynb: the SCRF loop (cell 71337e6c) and the final cell. *)

\* epsilon = 1e-5, in units of 5e-6.
epsilon == 2

\* update = 1.0 before the loop, in the same units.
UpdateInit == 200000

max_iter == 100

\* The solute density: one unit charge.
dens == 1

\* Potentials the library's Poisson operator returns (scalar stand-ins).
Potentials == 0..MaxPot

\* FunctionTree.norm() and vp.dot on the stand-ins.
norm(f) == Abs(f)
dot(f, g) == f * g

\* (1/2)*vp.dot(V, dens)
Energy(V) == RMul(Half, Rat(dot(V, dens), 1))

\* Mutant of Mix: the update is damped by one half.
MixDamped(V, dV) == V + dV \div 2

\* V_R + dV_R: the new reaction potential.
Mix(V, dV) == V + dV

\* Mutant of Converged: the test update <= epsilon.
ConvergedLeq(u) == u <= epsilon

\* The test of the loop's if statement.
Converged(u) == u < epsilon

\* Mutant of RangeHasNext: range(max_iter + 1).
RangeOffByOne(k) == k + 1 <= max_iter

\* range(max_iter) has another item after i.
RangeHasNext(k) == k + 1 < max_iter

\* The lines the cell prints.
Header == <<"Iter.  Norm  Update  Energy (a.u.)  Energy update (a.u.)">>
Rule == <<"-----">>
\* Mutant of Row: the iterations are numbered from 1.
RowOneBased(k) == <<"row", k + 1>>

\* The row of iteration k: its first field is the loop variable.
Row(k) == <<"row", k>>
Warning == <<"WARNING: SCRF did not converge">>

\* The state when the for statement is reached: the Cavity and Permittivity of
\* the notebook, the zero-th reaction potential, and the cell's first lines.
InitPCM ==
    /\ notebook = "PCMSolvent"
    /\ pc = "scrf"
    /\ centers = <<(<<0, 0, 0>>)>>
    /\ radii = <<5>>
    /\ sigma = 1
    /\ inside = Pow2(Rat(0, 1))
    /\ outside = Pow2(Rat(1, 1))
    /\ call = NoCall
    /\ V_R \in Potentials
    /\ V_R_np1 = Unbound
    /\ i = -1
    /\ update = UpdateInit
    /\ E_r = Unbound
    /\ E_r_old = Zero
    /\ dE_r = Unbound
    /\ final = Unbound
    /\ hits = {}
    /\ out = <<Header, Rule>>
    /\ spinor_H = None /\ orbital_error = None /\ energy = Unbound
    /\ body = Unbound
    /\ event = None /\ runs = <<>> /\ registry = <<>>

\* One pass of the loop body, up to and including the break test.
ScrfIteration ==
    /\ notebook = "PCMSolvent"
    /\ pc = "scrf"
    /\ RangeHasNext(i)
    /\ \E np1 \in Potentials :
          LET dV_R == np1 - V_R
              V_new == Mix(V_R, dV_R)
          IN  /\ i' = i + 1
              /\ V_R_np1' = Bound(np1)
              /\ update' = norm(dV_R)
              /\ V_R' = V_new
              /\ E_r' = Bound(Energy(V_new))
              /\ dE_r' = Bound(RSub(Energy(V_new), E_r_old))
              /\ E_r_old' = Energy(V_new)
              /\ out' = Append(out, Row(i + 1))
              /\ hits' = IF norm(dV_R) < epsilon THEN hits \cup {i + 1} ELSE hits
              /\ pc' = IF Converged(norm(dV_R)) THEN "energy" ELSE "scrf"
    /\ UNCHANGED <<cavVars, notebook, final, diracVars, ciVars>>

\* The else clause of the for statement: the range is exhausted.
ScrfElse ==
    /\ notebook = "PCMSolvent"
    /\ pc = "scrf"
    /\ ~RangeHasNext(i)
    /\ out' = Append(out, Warning)
    /\ pc' = "energy"
    /\ UNCHANGED <<cavVars, notebook, pcmVars, diracVars, ciVars>>

\* The last cell: (1/2)*vp.dot(V_R, dens).
FinalEnergyCell ==
    /\ notebook = "PCMSolvent"
    /\ pc = "energy"
    /\ final' = Bound(Energy(V_R))
    /\ pc' = "end"
    /\ UNCHANGED <<cavVars, notebook, out, V_R, V_R_np1, i, update, E_r,
                   E_r_old, dE_r, hits, diracVars, ciVars>>

----------------------------------------------------------------------------
(* H-atom-4c.ipynb: the orbital optimisation loop (cell 40a443b6). *)

\* prec = 1.0e-4, in units of 1e-4.
prec == 1

\* orbital_error = 1 before the loop, in the same units.
ErrorInit == 10000

\* Spinors the orbital4c operators return (scalar stand-ins).
Orbitals == 0..MaxOrb

\* (spinor.dot(hd_psi + v_psi)).real: the energy expectation value of a
\* spinor, named by the spinor it is computed from.
Expectation(phi) == <<"E", phi>>

\* (delta_psi.dot(delta_psi)).real for delta_psi = new_orbital - spinor_H.
SquaredNorm(new_orbital, phi) == (new_orbital - phi) * (new_orbital - phi)

\* The orbital4c operators build functions the model does not compute: each
\* result is the term of the call that made it.  der and prec are the same in
\* every call and are left out.
NoShift == Unbound
apply_dirac_hamiltonian(spinor, shift) == <<"hD", spinor, shift>>
apply_potential(spinor) == <<"V", spinor>>
add(f, g) == <<"+", f, g>>
calc_dirac_mu(e) == <<"mu", e>>
apply_helmholtz(g, mu) == <<"G", g, mu>>
crop(f) == <<"crop", f>>

\* The spinor a term of step 7 evaluates to is s times a spinor o of norm 1:
\* the library chooses both.
Scales == {1, 2}
Results == [o : Orbitals, s : Scales]
Value(x) == x.s * x.o

\* Mutant of normalize: the spinor is left as it is.
normalizeSkipped(x) == x

\* new_orbital.normalize()
normalize(x) == [o |-> x.o, s |-> 1]

\* Mutant of WhileTest: the test orbital_error >= prec.
WhileTestGeq(err) == err >= prec

\* The test of the while statement.
WhileTest(err) == err > prec

\* The last MaxLines lines of a sequence of lines.
RECURSIVE Last(_)
Last(lines) == IF Len(lines) <= MaxLines THEN lines ELSE Last(Tail(lines))

InitDirac ==
    /\ notebook = "H-atom-4c"
    /\ pc = "while"
    /\ spinor_H \in Orbitals
    /\ orbital_error = ErrorInit
    /\ energy = Unbound
    /\ body = Unbound
    /\ event = None /\ runs = <<>> /\ registry = <<>>
    /\ out = <<>>
    /\ centers = None /\ radii = None /\ sigma = None
    /\ inside = None /\ outside = None /\ call = NoCall
    /\ V_R = None /\ V_R_np1 = Unbound /\ i = -1 /\ update = None /\ E_r = Unbound
    /\ E_r_old = None /\ dE_r = Unbound /\ final = Unbound /\ hits = {}

\* One pass of the while loop: its test and its body.
DiracIteration ==
    /\ notebook = "H-atom-4c"
    /\ pc = "while"
    /\ WhileTest(orbital_error)
    /\ \E result \in Results :
          LET hd_psi == apply_dirac_hamiltonian(spinor_H, NoShift)
              v_psi == apply_potential(spinor_H)
              add_psi == add(hd_psi, v_psi)
              e == Expectation(spinor_H)
              mu == calc_dirac_mu(e)
              tmp == crop(apply_helmholtz(v_psi, mu))
              shifted == crop(apply_dirac_hamiltonian(tmp, Bound(e)))
              new_orbital == normalize(result)
              delta_psi == Value(new_orbital) - spinor_H
              err == SquaredNorm(Value(new_orbital), spinor_H)
          IN  /\ energy' = Bound(e)
              /\ orbital_error' = err
              /\ out' = Last(out \o <<(<<"Energy", e>>), (<<"Error", err>>)>>)
              /\ body' = Bound([hd_psi |-> hd_psi, v_psi |-> v_psi,
                                add_psi |-> add_psi, mu |-> mu, tmp |-> tmp,
                                shifted |-> shifted, result |-> result,
                                new_orbital |-> new_orbital,
                                delta_psi |-> delta_psi])
              /\ spinor_H' = Value(new_orbital)
    /\ UNCHANGED <<cavVars, notebook, pc, pcmVars, ciVars>>

\* The while test fails: the final energy is computed and printed.
DiracFinalEnergy ==
    /\ notebook = "H-atom-4c"
    /\ pc = "while"
    /\ ~WhileTest(orbital_error)
    /\ energy' = Bound(Expectation(spinor_H))
    /\ body' = Bound([body[1] EXCEPT
                        !.hd_psi = apply_dirac_hamiltonian(spinor_H, NoShift),
                        !.v_psi = apply_potential(spinor_H),
                        !.add_psi = add(apply_dirac_hamiltonian(spinor_H, NoShift),
                                        apply_potential(spinor_H))])
    /\ out' = Last(out \o <<(<<"Final Energy", Expectation(spinor_H)>>),
                             (<<"Exact Energy", "energy_1s">>),
                             (<<"Difference", Expectation(spinor_H)>>)>>)
    /\ pc' = "end"
    /\ UNCHANGED <<cavVars, notebook, pcmVars, spinor_H, orbital_error, ciVars>>

----------------------------------------------------------------------------
(* The notebooks. *)

Init == InitPCM \/ InitDirac

Next ==
    \/ ScrfIteration
    \/ ScrfElse
    \/ FinalEnergyCell
    \/ DiracIteration
    \/ DiracFinalEnergy

Spec == Init /\ [][Next]_vars

\* The kernel runs a cell to its end: it takes the next step whenever there
\* is one.
FairSpec == Spec /\ WF_vars(Next)

----------------------------------------------------------------------------
(* The workflow "Build Notebook Container". *)

\* on: the events that start a run.
on == {"push", "workflow_dispatch"}

\* Events GitHub delivers to a repository: those of `on` and others.
Events == on \cup {"pull_request", "schedule"}

\* Mutant of group: one group per triggering event.
groupByEvent(e) == <<"latest-repo2docker-group", e>>

\* concurrency.group: a constant, the same for every run.
group(e) == <<"latest-repo2docker-group">>

\* concurrency.cancel-in-progress
cancel_in_progress == TRUE

\* jobs.build.steps
steps == <<"checkout files in repo", "downcase repository name",
           "update jupyter dependencies with repo2docker">>

\* The runs after event e has started one.  GitHub cancels the pending run of
\* the new run's group, and with cancel-in-progress its run in progress too;
\* without it the new run is pending while a run of the group is in progress.
Queue(rs, e) ==
    LET g == group(e)
        waits == /\ ~cancel_in_progress
                 /\ \E k \in DOMAIN rs : rs[k].group = g /\ rs[k].status = "in_progress"
        earlier == [k \in DOMAIN rs |->
                      IF /\ rs[k].group = g
                         /\ \/ rs[k].status = "pending"
                            \/ rs[k].status = "in_progress" /\ cancel_in_progress
                      THEN [rs[k] EXCEPT !.status = "cancelled"]
                      ELSE rs[k]]
    IN  Append(earlier, [event |-> e, group |-> g, step |-> 0, published |-> FALSE,
                         status |-> IF waits THEN "pending" ELSE "in_progress"])

\* The runs after run k has ended with the given conclusion: the pending run
\* of its group starts.
Ended(rs, k, conclusion) ==
    [j \in DOMAIN rs |->
        IF j = k THEN [rs[j] EXCEPT !.status = conclusion]
        ELSE IF rs[j].group = rs[k].group /\ rs[j].status = "pending"
             THEN [rs[j] EXCEPT !.status = "in_progress"]
             ELSE rs[j]]

\* The repository with its workflow, before any event.
InitCI ==
    /\ notebook = None
    /\ pc = "workflow"
    /\ event = None /\ runs = <<>> /\ registry = <<>>
    /\ call = NoCall
    /\ out = <<>>
    /\ centers = None /\ radii = None /\ sigma = None
    /\ inside = None /\ outside = None
    /\ V_R = None /\ V_R_np1 = Unbound /\ i = -1 /\ update = None /\ E_r = Unbound
    /\ E_r_old = None /\ dE_r = Unbound /\ final = Unbound /\ hits = {}
    /\ spinor_H = None /\ orbital_error = None /\ energy = Unbound
    /\ body = Unbound

\* GitHub delivers event e: an event of `on` starts a run.
Deliver(e) ==
    /\ pc = "workflow"
    /\ e \in on => Len(runs) < MaxRuns
    /\ event' = e
    /\ runs' = IF e \in on THEN Queue(runs, e) ELSE runs
    /\ UNCHANGED <<cavVars, notebook, pc, out, pcmVars, diracVars, registry>>

\* The repo2docker step of run k pushes the image it built to the registry.
PushImage(k) ==
    /\ pc = "workflow"
    /\ runs[k].status = "in_progress"
    /\ runs[k].step = Len(steps) - 1
    /\ ~runs[k].published
    /\ runs' = [runs EXCEPT ![k].published = TRUE]
    /\ registry' = Append(registry, k)
    /\ UNCHANGED <<cavVars, notebook, pc, out, pcmVars, diracVars, event>>

\* The current step of run k succeeds; after the last step the run ends.
StepSucceeds(k) ==
    /\ pc = "workflow"
    /\ runs[k].status = "in_progress"
    /\ runs[k].step = Len(steps) - 1 => runs[k].published
    /\ runs' = IF runs[k].step + 1 = Len(steps)
               THEN Ended([runs EXCEPT ![k].step = @ + 1], k, "success")
               ELSE [runs EXCEPT ![k].step = @ + 1]
    /\ UNCHANGED <<cavVars, notebook, pc, out, pcmVars, diracVars, event, registry>>

\* The current step of run k fails: the run ends.
StepFails(k) ==
    /\ pc = "workflow"
    /\ runs[k].status = "in_progress"
    /\ runs' = Ended(runs, k, "failure")
    /\ UNCHANGED <<cavVars, notebook, pc, out, pcmVars, diracVars, event, registry>>

NextCI ==
    \/ \E e \in Events : Deliver(e)
    \/ \E k \in DOMAIN runs : PushImage(k)
    \/ \E k \in DOMAIN runs : StepSucceeds(k)
    \/ \E k \in DOMAIN runs : StepFails(k)

SpecCI == InitCI /\ [][NextCI]_vars

----------------------------------------------------------------------------
(* Properties of the SCRF loop and of the Dirac loop. *)

Lines(x) == {k \in 1..Len(out) : out[k] = x}

IsPCM == notebook = "PCMSolvent" /\ pc \in {"scrf", "energy", "end"}
IsDirac == notebook = "H-atom-4c"

\* The SCRF loop has ended.
ScrfOver == IsPCM /\ pc \in {"energy", "end"}

Warned == Lines(Warning) # {}

\* C1: when the SCRF loop has ended, the warning has been printed exactly when
\* no iteration had an update below epsilon; it is printed at most once, as the
\* last line, after all max_iter rows, and the final cell still runs.  While
\* the loop runs, and when any iteration (the last included) has an update
\* below epsilon, no warning is printed.
C1_WarningIffNotConverged ==
    IsPCM =>
        /\ Cardinality(Lines(Warning)) <= 1
        /\ pc = "scrf" => ~Warned
        /\ ScrfOver => (Warned <=> hits = {})
        /\ Warned => /\ out[Len(out)] = Warning
                      /\ Len(out) = 2 + max_iter + 1
                      /\ i = max_iter - 1
                      /\ \A k \in 0..(max_iter - 1) : Lines(Row(k)) # {}
        /\ (Warned /\ pc = "energy") => ENABLED FinalEnergyCell
        /\ (i = max_iter - 1 /\ update < epsilon) => ~Warned

\* The loop ran out of iterations, warned, and the final cell has run.
C1_Witness == IsPCM /\ Warned /\ pc = "end" /\ final # Unbound

\* C3: only the last executed iteration can have an update below epsilon, and
\* the loop has ended if and only if it has (or the range is exhausted); the
\* loop does not end before its first iteration; the rows printed are those
\* of 0, 1, ..., i in this order.
C3_HaltsAtFirstConverged ==
    IsPCM =>
        /\ hits \subseteq {i}
        /\ hits # {} => ScrfOver /\ update < epsilon
        /\ (ScrfOver /\ ~Warned) => hits = {i}
        /\ (pc = "scrf" /\ i >= 0) => update >= epsilon
        /\ ScrfOver => i >= 0
        /\ Len(out) >= 2 + i + 1
        /\ \A k \in 1..Len(out) :
              /\ (k > 2 /\ k <= 2 + i + 1) => out[k] = <<"row", k - 3>>
              /\ (k > 2 + i + 1) => out[k] = Warning

\* The loop halted at an iteration after the first one, without exhausting
\* the range.
C3_Witness ==
    IsPCM /\ ScrfOver /\ hits = {i} /\ i > 1 /\ i < max_iter - 1 /\ update = 1

\* C2 as stated: both loops terminate, whatever the updates and errors are.
C2_BothLoopsCapped == <>(pc = "end")

\* C2 amended: the SCRF loop executes at most max_iter iterations and ends,
\* whatever the updates are; the Dirac loop has no cap: it ends only after an
\* iteration whose error is not above prec, and then it does end.
C2_ScrfCappedDiracNot ==
    /\ [](IsPCM => i + 1 <= max_iter)
    /\ IsPCM ~> (pc = "end")
    /\ [](IsDirac /\ pc = "end" => orbital_error <= prec)
    /\ (IsDirac /\ orbital_error <= prec) ~> (pc = "end")

\* The SCRF loop used all of its max_iter iterations.
C2_Witness == IsPCM /\ pc = "end" /\ i + 1 = max_iter /\ Warned

\* C4: the Dirac loop goes on exactly while the error is above prec; when
\* the cell has ended the error is not above prec, the energy is that of the
\* current iterate, and the output ends with the pair of the last iteration
\* (the only Error line not above prec), Final Energy, Exact Energy and
\* Difference, the final energy being that of the iterate of the last
\* iteration.
C4_DiracLoopThenFinalEnergy ==
    IsDirac =>
        /\ pc = "while" =>
              /\ ENABLED DiracIteration <=> orbital_error > prec
              /\ ENABLED DiracFinalEnergy <=> ~(orbital_error > prec)
              /\ \A k \in 1..Len(out) :
                    /\ out[k][1] \in {"Energy", "Error"}
                    /\ (out[k][1] = "Error" /\ k < Len(out)) => out[k][2] > prec
              /\ out # <<>> => out[Len(out)] = <<"Error", orbital_error>>
        /\ pc = "end" =>
              LET n == Len(out) IN
              /\ ~(orbital_error > prec)
              /\ energy = Bound(Expectation(spinor_H))
              /\ n >= 5
              /\ out[n] = <<"Difference", Expectation(spinor_H)>>
              /\ out[n - 1] = <<"Exact Energy", "energy_1s">>
              /\ out[n - 2] = <<"Final Energy", Expectation(spinor_H)>>
              /\ out[n - 3] = <<"Error", orbital_error>>
              /\ \E phi \in Orbitals :
                    /\ out[n - 4] = <<"Energy", Expectation(phi)>>
                    /\ orbital_error = SquaredNorm(spinor_H, phi)
              /\ \A k \in 1..(n - 4) :
                    /\ out[k][1] \in {"Energy", "Error"}
                    /\ out[k][1] = "Error" => out[k][2] > prec
                    /\ out[k][1] # out[k + 1][1]

\* The loop ended after more than one iteration, on an error equal to prec.
C4_Witness ==
    /\ IsDirac /\ pc = "end" /\ orbital_error = prec
    /\ Len(out) >= 7 /\ out[Len(out) - 5][1] = "Error"

\* C12 (values): after any iteration V_R is the Poisson solution V_R_np1 of
\* that iteration and E_r, the energy its row prints, is (1/2)*dot(V_R, dens);
\* the value of the final cell is that E_r.
C12_LastValue ==
    IsPCM =>
        /\ i = -1 => V_R_np1 = Unbound
        /\ i >= 0 => /\ V_R_np1 = Bound(V_R)
                     /\ E_r = Bound(Energy(V_R))
        /\ pc = "end" => /\ final = E_r
                         /\ final = Bound(Energy(V_R))

\* C12 (frame): once the loop has ended nothing changes V_R or E_r.
C12_Kept == ScrfOver => (V_R' = V_R /\ V_R_np1' = V_R_np1 /\ E_r' = E_r)

\* C12: when the SCRF loop has ended, by convergence or by exhausting the
\* range, V_R is the Poisson solution of the last executed iteration (the
\* update is undamped), nothing modifies V_R between the loop and the final
\* cell, and the final cell's energy equals the E_r of the loop's last row.
C12_ContinuesWithLastValue == [](C12_LastValue) /\ [][C12_Kept]_vars

\* The range was exhausted without convergence, the last iteration changed
\* V_R, and the final cell has run on that V_R.
C12_Witness ==
    /\ IsPCM /\ pc = "end" /\ Warned /\ update >= epsilon
    /\ V_R_np1 = Bound(V_R) /\ final = E_r /\ V_R > 0

\* C13 (one pass): a step that stays in the loop is one pass of its body.
\* With phi the iterate before the step, the names the pass binds are, in the
\* order of the nine documented steps: f = hD phi (1), g = V phi (2),
\* h = f + g (3), the energy <phi|h> (4), mu of that energy (5), t = G_mu * g
\* (6), (hD + energy) t (7), the new iterate of norm 1 (8), and the change
\* new - phi whose squared norm is the error (9); only then phi is replaced.
C13_Pass ==
    (IsDirac /\ pc = "while" /\ pc' = "while") =>
        LET phi == spinor_H
            b == body'[1]
            f == <<"hD", phi, <<>> >>
            g == <<"V", phi>>
            e == <<"E", phi>>
            t == <<"crop", <<"G", g, <<"mu", e>> >> >>
        IN  /\ body' # Unbound
            /\ b.hd_psi = f
            /\ b.v_psi = g
            /\ b.add_psi = <<"+", f, g>>
            /\ energy' = <<e>>
            /\ b.mu = <<"mu", e>>
            /\ b.tmp = t
            /\ b.shifted = <<"crop", <<"hD", t, <<e>> >> >>
            /\ b.new_orbital = [o |-> b.result.o, s |-> 1]
            /\ b.delta_psi = b.result.o - phi
            /\ orbital_error' = b.delta_psi * b.delta_psi
            /\ spinor_H' = b.result.o
            /\ out'[Len(out') - 1] = <<"Energy", e>>
            /\ out'[Len(out')] = <<"Error", orbital_error'>>

\* C13: every iteration of the Dirac loop performs the nine documented steps
\* in the documented order, each on the values of that same iteration, and
\* replaces the current iterate only after the orbital error is computed.
C13_NineStepsInOrder == [][C13_Pass]_vars

\* The loop is in its second pass or a later one, the library's last result
\* had norm 2 before it was normalised, and the iterate changed.
C13_Witness ==
    /\ IsDirac /\ pc = "while" /\ Len(out) >= 4 /\ body # Unbound
    /\ body[1].result.s = 2 /\ body[1].delta_psi # 0
    /\ spinor_H = body[1].result.o /\ spinor_H > 0

----------------------------------------------------------------------------
(* Properties of the workflow. *)

InProgress == {k \in DOMAIN runs : runs[k].status = "in_progress"}

\* C16 (runs): every run was started by a push or a manual dispatch, all
\* runs are in one concurrency group, at most one run is in progress and it
\* is the one started last; every earlier run has ended, none is pending.
C16_OneRun ==
    /\ \A k \in DOMAIN runs :
          /\ runs[k].event \in {"push", "workflow_dispatch"}
          /\ runs[k].group = runs[1].group
          /\ runs[k].status # "pending"
          /\ k < Len(runs) => runs[k].status \in {"cancelled", "success", "failure"}
    /\ Cardinality(InProgress) <= 1

\* C16 (start): a run starts only when a push or a manual dispatch is
\* delivered, the delivery of another event starts none, and the run in
\* progress when a run starts is cancelled.
C16_Start ==
    /\ (event' # event /\ runs' = runs) =>
          event' \notin {"push", "workflow_dispatch"}
    /\ Len(runs') > Len(runs) =>
          /\ event' \in {"push", "workflow_dispatch"}
          /\ Len(runs') = Len(runs) + 1
          /\ runs'[Len(runs')].event = event'
          /\ runs'[Len(runs')].status = "in_progress"
          /\ \A k \in DOMAIN runs :
                runs'[k].status = IF runs[k].status = "in_progress"
                                  THEN "cancelled" ELSE runs[k].status

\* C16 as stated: started by push or manual dispatch only, one concurrency
\* group, at most one run in progress, and the image published last comes
\* from the most recently started run (once no run is in progress).
C16_LastImageFromLastRun ==
    /\ C16_OneRun
    /\ (runs # <<>> /\ InProgress = {}) =>
          (registry # <<>> /\ registry[Len(registry)] = Len(runs))

\* C16 (images): an image is pushed only by the most recently started run.
C16_Push == registry' # registry => registry' = Append(registry, Len(runs))

\* C16 (registry): the images were pushed in the order their runs started,
\* one per run at most, and when the most recently started run has succeeded
\* the image published last is its own.
C16_InOrder ==
    /\ \A a, b \in DOMAIN registry : a < b => registry[a] < registry[b]
    /\ \A a \in DOMAIN registry : registry[a] \in DOMAIN runs
                                  /\ runs[registry[a]].published
    /\ (runs # <<>> /\ runs[Len(runs)].status = "success") =>
          (registry # <<>> /\ registry[Len(registry)] = Len(runs))

\* C16 amended: runs are started by a push or a manual dispatch and by no
\* other event, all in one concurrency group with cancel-in-progress: at most
\* one run is in progress, a run started while another is in progress cancels
\* it, and so no run publishes after a later run has started; the image
\* published last comes from the most recently started run when that run
\* succeeds.
C16_OnlyLatestRunPublishes ==
    /\ [](C16_OneRun /\ C16_InOrder)
    /\ [][C16_Start /\ C16_Push]_vars

\* A run that had pushed its image was cancelled by a manual dispatch, whose
\* run pushed a later image and succeeded.
C16_Witness ==
    /\ Len(runs) >= 2 /\ Len(registry) = 2
    /\ runs[Len(runs) - 1].status = "cancelled" /\ runs[Len(runs) - 1].published
    /\ runs[Len(runs)].event = "workflow_dispatch"
    /\ runs[Len(runs)].status = "success"
    /\ event = "pull_request"

----------------------------------------------------------------------------
(* Properties of constructChargeDensity. *)

\* C14: a call of constructChargeDensity that passes only positions and
\* charges returns a charge density, one Gaussian per charge, whose Gaussians
\* have the width parameter 1000.
C14_WidthDefaultsTo1000 ==
    (call.obj = "constructChargeDensity" /\ call.width_parameter = Unbound) =>
        /\ call.ret.raised = ""
        /\ Len(call.ret.charge_density) = Min(Len(call.positions), Len(call.charges))
        /\ \A k \in DOMAIN call.ret.charge_density :
              call.ret.charge_density[k].beta = 1000

----------------------------------------------------------------------------
(* Properties of Cavity and Permittivity. *)

Spheres == 1..Len(centers)

\* The erf factor of sphere j has reached its limit value at r: -1 deep
\* inside the sphere, 1 far outside it.
DeepInside(j, r) == s_i(j, r) <= -(ErfSat * sigma)
FarOutside(j, r) == s_i(j, r) >= ErfSat * sigma

\* Away from the smoothed boundary: inside the cavity (deep inside one of the
\* spheres), or outside it (far outside all of them).
InsideCavity(r) ==
    /\ \A j \in Spheres : DeepInside(j, r) \/ FarOutside(j, r)
    /\ \E j \in Spheres : DeepInside(j, r)
OutsideCavity(r) == \A j \in Spheres : FarOutside(j, r)

InUnit(x) == RLeq(Zero, x) /\ RLeq(x, One)

\* The per-sphere function and the total cavity function of the notebook's
\* formulas (markdown cell 8fb876dd).
FormulaC_i(j, r) == RMul(Half, RAdd(One, erf(Rat(s_i(j, r), sigma))))

RECURSIVE FormulaProduct(_, _)
FormulaProduct(k, r) ==
    IF k = 0 THEN One
    ELSE RMul(FormulaProduct(k - 1, r), RSub(One, FormulaC_i(k, r)))

FormulaC(r) == RSub(One, FormulaProduct(Len(centers), r))

\* C5: the value Cavity.__call__ returns is 0 at a point inside the cavity
\* and 1 at a point outside it, away from the smoothed boundary.
C5_ZeroInsideOneOutside ==
    call.obj = "Cavity" =>
        /\ InsideCavity(call.r) => call.ret = Zero
        /\ OutsideCavity(call.r) => call.ret = One

\* C6: the value Cavity.__call__ returns is 1 - prod_i (1 - C_i) with
\* C_i = (1/2)(1 + erf((|r - r_i| - R_i)/sigma)).
C6_EqualsFormula == call.obj = "Cavity" => call.ret = FormulaC(call.r)

\* The orders in which k spheres can be listed.
Orders(k) == {ord \in [1..k -> 1..k] : \A a, b \in 1..k : ord[a] = ord[b] => a = b}

\* 1 - C_i of the loop body, for every sphere.
Factors(r) == [j \in Spheres |-> Fl(RSub(One, C_i(j, r)))]

\* The value Cavity.__call__ returns when the spheres are listed in the order
\* ord: its loop, run over centers[ord[1]], centers[ord[2]], ..., with the
\* factors f.
RECURSIVE ListedLoop(_, _, _)
ListedLoop(f, ord, k) ==
    IF k = 0 THEN One
    ELSE Fl(RMul(ListedLoop(f, ord, k - 1), f[ord[k]]))

ListedWith(f, ord) == Fl(RSub(One, ListedLoop(f, ord, Len(ord))))

Listed(ord, r) == ListedWith(Factors(r), ord)

RAbs(x) == IF x.n < 0 THEN Rat(-x.n, x.d) ELSE x

\* The rounding errors k spheres can add up to: one for each product and each
\* difference of the loop, in either of two orders.
Rounding(k) == Rat(2 * k, TwoTo(Mantissa))

\* C15 (union): a point deep inside one of the spheres gets the value a
\* cavity of that sphere alone has there, wherever the other spheres are,
\* and a point gets the value of the outside (that of a cavity without
\* spheres) exactly when it is far outside every sphere.
C15_Union ==
    call.obj = "Cavity" =>
        \A f \in {Factors(call.r)}, nospheres \in {Listed(<<>>, call.r)} :
            /\ \A j \in Spheres : DeepInside(j, call.r) =>
                  /\ call.ret = ListedWith(f, <<j>>)
                  /\ call.ret # nospheres
            /\ call.ret = nospheres <=> \A j \in Spheres : FarOutside(j, call.r)

\* C15 as stated: the cavity is the union of its spheres, and its value does
\* not depend on the order in which the spheres are listed.
C15_UnionInAnyOrder ==
    call.obj = "Cavity" =>
        \A f \in {Factors(call.r)} :
            /\ C15_Union
            /\ \A ord \in Orders(Len(centers)) : ListedWith(f, ord) = call.ret

\* C15 amended: the cavity is the union of its spheres; its value does not
\* depend on the order of the spheres when there are at most two of them,
\* and at a point deep inside a sphere or far outside all of them; in any
\* other case two orders differ by rounding errors at most.
C15_UnionUpToRounding ==
    call.obj = "Cavity" =>
        \A f \in {Factors(call.r)},
           exact \in {\/ Len(centers) <= 2
                      \/ \E j \in Spheres : DeepInside(j, call.r)
                      \/ \A j \in Spheres : FarOutside(j, call.r)} :
            /\ C15_Union
            /\ \A ord \in Orders(Len(centers)) :
                  \A v \in {ListedWith(f, ord)} :
                      \/ v = call.ret
                      \/ /\ ~exact
                         /\ RLeq(RAbs(RSub(v, call.ret)), Rounding(Len(centers)))

\* A cavity of three spheres was evaluated at a point of their smoothed
\* boundary where another order of the spheres gives another value.
C15_Witness ==
    /\ call.obj = "Cavity" /\ Len(centers) = 3
    /\ \E ord \in Orders(3) : Listed(ord, call.r) # call.ret

C8_CavityInUnitInterval ==
    call.obj # "none" =>
        /\ InUnit(call.C)
        /\ Len(call.partials) = Len(centers) + 1
        /\ \A k \in 1..Len(call.partials) : InUnit(call.partials[k])

\* A cavity of two spheres was evaluated at a point of the smoothed boundary
\* of both.
C8_Witness ==
    /\ call.obj = "Cavity" /\ Len(centers) = 2
    /\ RLess(Zero, call.C) /\ RLess(call.C, One)
    /\ RLess(call.partials[3], call.partials[2])
    /\ RLess(call.partials[2], One)

PosMin(x, y) == IF PosLeq(x, y) THEN x ELSE y
PosMax(x, y) == IF PosLeq(x, y) THEN y ELSE x

\* C9 (values): the permittivity lies between the smaller and the larger
\* of inside and outside, is `outside` for C = 0 and `inside` for C = 1.
C9_Interpolates ==
    call.obj = "Permittivity" =>
        /\ PosLeq(PosMin(inside, outside), call.ret)
        /\ PosLeq(call.ret, PosMax(inside, outside))
        /\ call.C = Zero => call.ret = outside
        /\ call.C = One => call.ret = inside

\* C9 (monotone): of two evaluations in a row, the one with the larger C
\* returns the permittivity nearer to `inside`.
C9_MonotoneStep ==
    (call.obj = "Permittivity" /\ call'.obj = "Permittivity"
        /\ RLeq(call.C, call'.C)) =>
    IF PosLeq(inside, outside) THEN PosLeq(call'.ret, call.ret)
                               ELSE PosLeq(call.ret, call'.ret)

C10_NoMutableState ==
    [][ /\ centers' = centers /\ radii' = radii /\ sigma' = sigma
        /\ inside' = inside /\ outside' = outside
        /\ call'.before # <<>> => call'.before = <<call'.ret>> ]_vars

\* An object was evaluated twice in a row at the same point.
C10_Witness == call.obj = "Permittivity" /\ call.before # <<>> /\ Len(centers) = 2

====
